---- MODULE Spec2Model ----
(***************************************************************************)
(* A model of src/agent/data_collection_agent.py: the WeatherAgent class.  *)
(*                                                                         *)
(* JSON values are tagged records [t, v]; a number is an integer count of  *)
(* hundredths (20.00 C is 2000), a score is a plain integer tagged "int".  *)
(* A Python exception raised while evaluating an expression is the value   *)
(* Raise, which every accessor below propagates.                           *)
(* File writes (open/json.dump/f.write) are taken to succeed.              *)
(***************************************************************************)
EXTENDS Integers, Sequences, FiniteSets, TLC

\* ------------------------------------------------------------------ bounds
MaxCities == 2
MaxRetries == 3

\* one number is Scale hundredths
Scale == 100

\* --------------------------------------------------------- JSON and Python
JNum(n) == [t |-> "num", v |-> n]
JInt(n) == [t |-> "int", v |-> n]
JStr(s) == [t |-> "str", v |-> s]
JList(s) == [t |-> "list", v |-> s]
JDict(f) == [t |-> "dict", v |-> f]
None == [t |-> "null", v |-> 0]
Raise == [t |-> "raise", v |-> 0]
EmptyDict == JDict([k \in {} |-> None])
EmptyList == JList(<<>>)

IsRaise(x) == x.t = "raise"

\* d[key] in place of d.get(key, default): a missing key raises
PyGetStrict(d, key, default) ==
    IF d.t = "dict" /\ key \in DOMAIN d.v THEN d.v[key] ELSE Raise

\* d.get(key, default): AttributeError unless d is a dict
PyGet(d, key, default) ==
    IF d.t = "dict"
    THEN IF key \in DOMAIN d.v THEN d.v[key] ELSE default
    ELSE Raise

\* value[part] with a string part: KeyError on a dict without the key,
\* TypeError on every other kind of value
PySubscript(value, part) ==
    IF value.t = "dict" /\ part \in DOMAIN value.v THEN value.v[part] ELSE Raise

\* key in container (key a string); strings of the model are atoms, so the
\* substring test of str is equality
PyContains(container, key) ==
    CASE container.t = "dict" -> IF key \in DOMAIN container.v THEN "yes" ELSE "no"
      [] container.t = "list" ->
            IF \E i \in 1..Len(container.v) : container.v[i] = JStr(key)
            THEN "yes" ELSE "no"
      [] container.t = "str" -> IF container.v = key THEN "yes" ELSE "no"
      [] OTHER -> "raise"

\* len(x): -1 stands for the TypeError of a value without a length; the strings
\* of the model are non-empty atoms and count as one character
PyLen(x) ==
    CASE x.t = "list" -> Len(x.v)
      [] x.t = "dict" -> Cardinality(DOMAIN x.v)
      [] x.t = "str" -> 1
      [] OTHER -> -1

\* truth value of x as a condition
PyTruthy(x) ==
    CASE x.t = "null" -> FALSE
      [] x.t \in {"list", "dict"} -> PyLen(x) > 0
      [] x.t \in {"num", "int"} -> x.v # 0
      [] OTHER -> TRUE

Max(a, b) == IF a >= b THEN a ELSE b

RECURSIVE Pow2(_)
Pow2(n) == IF n <= 0 THEN 1 ELSE 2 * Pow2(n - 1)

\* ------------------------------------------------------ program constants
OwmMinForecast == 30
WapiMinForecast == 5
TempMin == -70
TempMax == 50
ForecastPenalty == 20
FieldPenalty == 5
ValidityPenalty == 10
FullScore == 100

\* -------------------------------------------------------- payload records
\* record.get('quality_score', ...) of a payload that was never assessed
Absent == [t |-> "absent", v |-> 0]

Payload(api, city, data) ==
    [api |-> api, city |-> city, data |-> data, quality_score |-> Absent]

Issue(kind, city, api, arg) == [kind |-> kind, city |-> city, api |-> api, arg |-> arg]

\* --------------------------------------------- _assess_and_log_quality
RequiredFields(api) ==
    CASE api = "OpenWeatherMap" ->
            << <<"current", "main", "temp">>, <<"current", "main", "humidity">>,
               <<"current", "wind", "speed">> >>
      [] api = "WeatherAPI" ->
            << <<"current", "temp_c">>, <<"current", "humidity">>,
               <<"current", "wind_kph">> >>
      [] OTHER -> << >>

ForecastKey(api) == IF api = "OpenWeatherMap" THEN "list" ELSE "forecastday"
ForecastMin(api) == IF api = "OpenWeatherMap" THEN OwmMinForecast ELSE WapiMinForecast

\* the forecast condition of the two branches: "deduct", "ok" or "raise"
ForecastCheck(api, data) ==
    IF api \notin {"OpenWeatherMap", "WeatherAPI"} THEN "ok"
    ELSE LET has == PyContains(data, "forecast") IN
         CASE has = "raise" -> "raise"
           [] has = "no" -> "deduct"
           [] OTHER ->
              LET lst == PyGet(PyGet(data, "forecast", EmptyDict),
                               ForecastKey(api), EmptyList)
                  n == IF IsRaise(lst) THEN -1 ELSE PyLen(lst)
              IN  IF n < 0 THEN "raise"
                  ELSE IF n < ForecastMin(api) THEN "deduct" ELSE "ok"

\* the walk value = value[part] over the parts of one dotted field
RECURSIVE Walk(_, _)
Walk(value, parts) ==
    IF parts = << >> \/ IsRaise(value) THEN value
    ELSE Walk(PySubscript(value, Head(parts)), Tail(parts))

Resolves(data, field) == ~IsRaise(Walk(data, field))

\* a field holding null counted as not resolved
ResolvedCountNonNull(api, data) ==
    Cardinality({i \in DOMAIN RequiredFields(api) :
                    /\ Resolves(data, RequiredFields(api)[i])
                    /\ Walk(data, RequiredFields(api)[i]) # None})

ResolvedCount(api, data) ==
    Cardinality({i \in DOMAIN RequiredFields(api) : Resolves(data, RequiredFields(api)[i])})

\* temp_value of the validity check; Raise when a .get hits a non-dict
TempValue(api, data) ==
    CASE api = "OpenWeatherMap" ->
            PyGet(PyGet(PyGet(data, "current", EmptyDict), "main", EmptyDict), "temp", None)
      [] api = "WeatherAPI" ->
            PyGet(PyGet(data, "current", EmptyDict), "temp_c", None)
      [] OTHER -> None

\* the two limits themselves taken for suspect
SuspectTempInclusive(tv) ==
    /\ tv.t = "num"
    /\ (tv.v <= TempMin * Scale \/ tv.v >= TempMax * Scale)

\* temp_value is not None and (temp_value < -70 or temp_value > 50); comparing
\* a non-number raises TypeError, which the except clause swallows
SuspectTemp(tv) ==
    /\ tv.t = "num"
    /\ (tv.v < TempMin * Scale \/ tv.v > TempMax * Scale)

\* the forecast deduction added to the score where the code subtracts it
AssessScoreAdds(api, data) ==
    LET c0 == FullScore
        c1 == IF ForecastCheck(api, data) = "deduct" THEN c0 + ForecastPenalty ELSE c0
        c2 == c1 - FieldPenalty * (Len(RequiredFields(api)) - ResolvedCount(api, data))
        c3 == IF SuspectTemp(TempValue(api, data)) THEN c2 - ValidityPenalty ELSE c2
    IN  Max(0, c3)

AssessScore(api, data) ==
    LET c0 == FullScore
        c1 == IF ForecastCheck(api, data) = "deduct" THEN c0 - ForecastPenalty ELSE c0
        c2 == c1 - FieldPenalty * (Len(RequiredFields(api)) - ResolvedCount(api, data))
        c3 == IF SuspectTemp(TempValue(api, data)) THEN c2 - ValidityPenalty ELSE c2
    IN  Max(0, c3)

\* [raised, record, metrics]: raised when the forecast condition raises, which
\* happens before any metric is touched
AssessAndLogQuality(record, metrics) ==
    LET api == record.api
        city == record.city
        data == record.data
    IN  IF ForecastCheck(api, data) = "raise"
        THEN [raised |-> TRUE, record |-> record, metrics |-> metrics]
        ELSE LET score == AssessScore(api, data)
                 tv == TempValue(api, data)
                 issues1 == IF SuspectTemp(tv)
                            THEN Append(metrics.issues, Issue("SuspectTemp", city, api, tv))
                            ELSE metrics.issues
             IN  [raised |-> FALSE,
                  record |-> [record EXCEPT !.quality_score = JInt(score)],
                  metrics |-> [metrics EXCEPT
                      !.data_points_collected = @ + ResolvedCount(api, data),
                      !.issues = issues1,
                      !.total_quality_score = @ + score]]


\* ------------------------------------------------------ _process_raw_data
RunId == "run"

\* 0.277778 as KphFactorMicro / MicroUnit
KphFactorMicro == 277778
MicroUnit == 1000000

\* round(num / den) to the nearest integer, ties to even (den > 0)
RoundHalfEven(num, den) ==
    LET q == num \div den
        r == num % den
    IN  IF 2 * r < den THEN q
        ELSE IF 2 * r > den THEN q + 1
        ELSE IF q % 2 = 0 THEN q ELSE q + 1

\* the conversion cut to two decimals where the code rounds
KphToMsTruncated(v) == (v * KphFactorMicro) \div MicroUnit

\* round(wind_kph * 0.277778, 2), on hundredths
KphToMs(v) == RoundHalfEven(v * KphFactorMicro, MicroUnit)

\* x[0]: the first element of a non-empty list; any other truthy value raises
\* here or at the .get that follows
PyFirst(x) == IF x.t = "list" /\ Len(x.v) > 0 THEN x.v[1] ELSE Raise

FString(text, arg) == [t |-> "fstr", v |-> <<text, arg>>]

\* the record built before any score was attached: the placeholder, always
InitialProcessedNoScore(record) ==
    [city |-> record.city,
     collection_timestamp |-> RunId,
     source_api |-> record.api,
     quality_score |-> JStr("N/A"),
     current_temp_c |-> None,
     current_humidity_p |-> None,
     current_wind_speed_m_s |-> None,
     forecast_summary |-> None]

\* processed = {..., 'quality_score': record.get('quality_score', 'N/A'), ...}
InitialProcessed(record) ==
    [city |-> record.city,
     collection_timestamp |-> RunId,
     source_api |-> record.api,
     quality_score |-> IF record.quality_score = Absent THEN JStr("N/A")
                       ELSE record.quality_score,
     current_temp_c |-> None,
     current_humidity_p |-> None,
     current_wind_speed_m_s |-> None,
     forecast_summary |-> None]

\* the except clause returning a blank record with the score zeroed
ProcessFailureClears(processed) ==
    [processed EXCEPT !.quality_score = JInt(0),
                      !.current_temp_c = None,
                      !.current_humidity_p = None,
                      !.current_wind_speed_m_s = None,
                      !.forecast_summary = None]

\* the except clause: the fields set so far are kept, the score is zeroed
ProcessFailure(processed) == [processed EXCEPT !.quality_score = JInt(0)]

\* the forecast_summary step shared by both branches, applied to the record p
ForecastSummaryStep(p, data, key, field, text) ==
    LET lst == PyGet(PyGet(data, "forecast", EmptyDict), key, EmptyList) IN
    IF IsRaise(lst) THEN ProcessFailure(p)
    ELSE IF ~PyTruthy(lst) THEN p
    ELSE LET arg == PyGet(PyFirst(lst), field, None) IN
         IF IsRaise(arg) THEN ProcessFailure(p)
         ELSE [p EXCEPT !.forecast_summary = FString(text, arg)]

ProcessOwm(p0, data) ==
    LET current == PyGet(data, "current", EmptyDict)
        main == PyGet(current, "main", EmptyDict)
        wind == PyGet(current, "wind", EmptyDict)
        temp == PyGet(main, "temp", None)
        humidity == PyGet(main, "humidity", None)
        speed == PyGet(wind, "speed", None)
    IN  IF IsRaise(current) \/ IsRaise(main) \/ IsRaise(wind) \/ IsRaise(temp)
        THEN ProcessFailure(p0)
        ELSE LET p2 == [p0 EXCEPT !.current_temp_c = temp,
                                  !.current_humidity_p = humidity]
             IN  IF IsRaise(speed) THEN ProcessFailure(p2)
                 ELSE ForecastSummaryStep(
                          [p2 EXCEPT !.current_wind_speed_m_s = speed],
                          data, "list", "dt_txt", "3-hour steps starting")

ProcessWapi(p0, data) ==
    LET current == PyGet(data, "current", EmptyDict)
        temp == PyGet(current, "temp_c", None)
        humidity == PyGet(current, "humidity", None)
        wind_kph == PyGet(current, "wind_kph", None)
    IN  IF IsRaise(current) \/ IsRaise(temp)
        THEN ProcessFailure(p0)
        ELSE LET p2 == [p0 EXCEPT !.current_temp_c = temp,
                                  !.current_humidity_p = humidity]
             IN  IF wind_kph = None
                 THEN ForecastSummaryStep(p2, data, "forecastday", "date",
                                          "5-day forecast starting")
                 ELSE IF wind_kph.t # "num" THEN ProcessFailure(p2)
                 ELSE ForecastSummaryStep(
                          [p2 EXCEPT !.current_wind_speed_m_s = JNum(KphToMs(wind_kph.v))],
                          data, "forecastday", "date", "5-day forecast starting")

ProcessRawData(record) ==
    LET p0 == InitialProcessed(record) IN
    CASE record.api = "OpenWeatherMap" -> ProcessOwm(p0, record.data)
      [] record.api = "WeatherAPI" -> ProcessWapi(p0, record.data)
      [] OTHER -> p0


\* ------------------------------------------------------------ inputs
OWM == "OpenWeatherMap"
WAPI == "WeatherAPI"

CityNames == <<"Austin", "Boston", "Cairo", "Delhi">>

\* config.json, COLLECTION_SETTINGS
Priorities == {<<OWM, WAPI>>, <<WAPI, OWM>>, <<OWM>>, <<WAPI>>}
Delays == {3}

\* MAX_RETRIES: no attempt, one attempt without backoff, and the most attempts
Settings ==
    [CITIES : {SubSeq(CityNames, 1, n) : n \in 0..MaxCities},
     MAX_RETRIES : {0, 1, MaxRetries},
     RESPECTFUL_DELAY_SECONDS : Delays,
     API_PRIORITY : Priorities]

\* response bodies the sources may send
OwmCurrentFull ==
    JDict([main |-> JDict([temp |-> JNum(20 * Scale), humidity |-> JNum(60 * Scale)]),
           wind |-> JDict([speed |-> JNum(5 * Scale)])])
OwmForecastFull ==
    JDict([list |-> JList([i \in 1..OwmMinForecast |-> JDict([dt_txt |-> JStr("t0")])])])
WapiFull ==
    JDict([current |-> JDict([temp_c |-> JNum(55 * Scale), humidity |-> JNum(60 * Scale),
                              wind_kph |-> JNum(36 * Scale)]),
           forecast |-> JDict([forecastday |->
               JList([i \in 1..WapiMinForecast |-> JDict([date |-> JStr("d0")])])])])

\* next to the full bodies: a forecast answer that is a list and a null body,
\* on which the assessor's forecast condition raises, and a WeatherAPI body []
\* that the assessor scores and the normalizer cannot map
OwmBodies(name) ==
    IF name = "current" THEN {OwmCurrentFull}
    ELSE {OwmForecastFull, EmptyList}
WapiBodies == {WapiFull, None, EmptyList}

\* what one requests.get may do: 200 with a JSON body, 200 with a body that
\* does not parse, another status, or a transport exception
Outcomes(bodies) ==
    {[kind |-> "ok", body |-> b] : b \in bodies}
    \cup {[kind |-> k, body |-> None] : k \in {"bad_json", "status", "transport"}}


\* ------------------------------------------------------------- state
VARIABLES
    settings,          \* self.settings
    raw_data,          \* self.raw_data
    processed_data,    \* self.processed_data
    summary_metrics,   \* self.summary_metrics
    pc,                \* position in run_agent / collect_data
    city_idx,          \* index of `city` in CITIES (1-based)
    attempt,           \* `attempt` of the retry loop
    api_idx,           \* index of `api_name` in API_PRIORITY (1-based)
    data,              \* `data` of collect_data
    owm,               \* locals of _fetch_owm_data: endpoint index, data, overall_success
    slept,             \* seconds slept since the last outbound request
    last_gap,          \* seconds slept between the last two requests (-1: none before)
    events,            \* fetches and backoff sleeps of the current location
    outcomes,          \* per finished location, whether any fetch returned a payload
    attempted,         \* output steps of run_agent attempted so far
    crash,             \* where run_agent's try block raised, and whether it escaped
    net,               \* what went over the wire: client calls, requests, good answers
    owm_log            \* endpoint outcomes of the _fetch_owm_data call under way or
                       \* just returned; forgotten at the step after the return

vars == <<settings, raw_data, processed_data, summary_metrics, pc, city_idx, attempt,
          api_idx, data, owm, slept, last_gap, events, outcomes, attempted, crash,
          net, owm_log>>

CITIES == settings.CITIES
MAX_RETRIES == settings.MAX_RETRIES
RESPECTFUL_DELAY_SECONDS == settings.RESPECTFUL_DELAY_SECONDS
API_PRIORITY == settings.API_PRIORITY

InitialMetrics ==
    [total_requests |-> 0, successful_requests |-> 0, failures |-> 0,
     data_points_collected |-> 0, owm_success |-> 0, wapi_success |-> 0,
     total_quality_score |-> 0, issues |-> << >>]

OwmEndpoints == <<"current", "forecast">>
OwmLocals == [ep |-> 1, data |-> EmptyDict, overall_success |-> FALSE]
NoCrash == [at |-> "none", escaped |-> FALSE]
NoTraffic == [owm_calls |-> 0, wapi_calls |-> 0, requests |-> 0, owm_ok |-> 0, wapi_ok |-> 0]

Init ==
    /\ settings \in Settings
    /\ raw_data = << >>
    /\ processed_data = << >>
    /\ summary_metrics = InitialMetrics
    /\ pc = "city_loop"
    /\ city_idx = 1
    /\ attempt = 0
    /\ api_idx = 1
    /\ data = None
    /\ owm = OwmLocals
    /\ slept = 0
    /\ last_gap = -1
    /\ events = << >>
    /\ outcomes = << >>
    /\ attempted = {}
    /\ crash = NoCrash
    /\ net = NoTraffic
    /\ owm_log = << >>


\* ------------------------------------------------------- collect_data
City == CITIES[city_idx]

\* `if data:` -- a payload is a non-empty dict, so only None is false
Truthy(d) == d # None

\* range(MAX_RETRIES + 1) in place of range(MAX_RETRIES)
InRetryRangeInclusive(a) == a <= settings.MAX_RETRIES

\* for attempt in range(MAX_RETRIES)
InRetryRange(a) == a < MAX_RETRIES

\* a backoff after every failed pass, the last one included
NeedsBackoffAfterLast(a) == a < MAX_RETRIES

\* if attempt < MAX_RETRIES - 1
NeedsBackoff(a) == a < MAX_RETRIES - 1

\* the exponent taken from the 1-based attempt number of the log line
BackoffDelayShifted(a) == settings.RESPECTFUL_DELAY_SECONDS * Pow2(a + 1)

\* delay = RESPECTFUL_DELAY_SECONDS * (2 ** attempt)
BackoffDelay(a) == RESPECTFUL_DELAY_SECONDS * Pow2(a)

\* time.sleep(RESPECTFUL_DELAY_SECONDS) at the end of each OWM endpoint pass
OwmSleep == RESPECTFUL_DELAY_SECONDS

\* the seconds _fetch_wapi_data sleeps after its request: it has no sleep
WapiSleep == 0

FetchEvent(api, d) ==
    [kind |-> "fetch", api |-> api, got |-> d # None, attempt |-> attempt, delay |-> 0]
BackoffEvent(delay) ==
    [kind |-> "backoff", api |-> "", got |-> FALSE, attempt |-> attempt, delay |-> delay]

\* the gap a request sees, then the sleep that follows it
Request(sleep) ==
    /\ last_gap' = IF summary_metrics.total_requests = 0 THEN -1 ELSE slept
    /\ slept' = sleep

\* the location loop without the `data = None` of line 146
StartCityKeepsData ==
    /\ pc = "city_loop"
    /\ city_idx <= Len(CITIES)
    /\ attempt' = 0
    /\ events' = << >>
    /\ pc' = "retry_loop"
    /\ UNCHANGED <<settings, raw_data, processed_data, summary_metrics, city_idx,
                   api_idx, data, owm, slept, last_gap, outcomes, attempted, crash,
                   net, owm_log>>

\* for city in CITIES: data = None
StartCity ==
    /\ pc = "city_loop"
    /\ city_idx <= Len(CITIES)
    /\ data' = None
    /\ attempt' = 0
    /\ events' = << >>
    /\ pc' = "retry_loop"
    /\ UNCHANGED <<settings, raw_data, processed_data, summary_metrics, city_idx,
                   api_idx, owm, slept, last_gap, outcomes, attempted, crash,
                   net, owm_log>>

\* top of the retry loop
RetryLoop ==
    /\ pc = "retry_loop"
    /\ IF InRetryRange(attempt)
       THEN /\ api_idx' = 1
            /\ pc' = "api_loop"
       ELSE /\ pc' = "after_retry"
            /\ UNCHANGED api_idx
    /\ UNCHANGED <<settings, raw_data, processed_data, summary_metrics, city_idx,
                   attempt, data, owm, slept, last_gap, events, outcomes, attempted,
                   crash,
                   net, owm_log>>

\* the success counted at both `if data:` tests
SuccessCountTwice(metrics) == [metrics EXCEPT !.successful_requests = @ + 2]

\* self.summary_metrics['successful_requests'] += 1
SuccessCount(metrics) == [metrics EXCEPT !.successful_requests = @ + 1]

\* `if data:` inside the API loop
BreaksApiLoop(d) == Truthy(d)

\* the source client returned d: data = d, then `if data:` counts and breaks
\* the API loop
AfterFetch(api, d, metrics) ==
    /\ data' = d
    /\ events' = Append(events, FetchEvent(api, d))
    /\ IF BreaksApiLoop(d)
       THEN /\ summary_metrics' = SuccessCount(metrics)
            /\ pc' = "after_api"
            /\ UNCHANGED api_idx
       ELSE /\ summary_metrics' = metrics
            /\ api_idx' = api_idx + 1
            /\ pc' = "api_loop"

\* one more call of the client of source api
NetCall(n, api) ==
    IF api = OWM THEN [n EXCEPT !.owm_calls = @ + 1] ELSE [n EXCEPT !.wapi_calls = @ + 1]

\* one more request sent to source api, and how the source answered it: an
\* answer is good when it is a 200 whose body parses
NetRequest(n, api, outcome) ==
    LET good == IF outcome.kind = "ok" THEN 1 ELSE 0 IN
    IF api = OWM
    THEN [n EXCEPT !.requests = @ + 1, !.owm_ok = @ + good]
    ELSE [n EXCEPT !.requests = @ + 1, !.wapi_ok = @ + good]

\* top of the API loop, api_name = "OpenWeatherMap": enter _fetch_owm_data
CallOwm ==
    /\ pc = "api_loop"
    /\ api_idx <= Len(API_PRIORITY)
    /\ API_PRIORITY[api_idx] = OWM
    /\ owm' = OwmLocals
    /\ pc' = "owm_endpoint"
    /\ net' = NetCall(net, OWM)
    /\ owm_log' = << >>
    /\ UNCHANGED <<settings, raw_data, processed_data, summary_metrics, city_idx,
                   attempt, api_idx, data, slept, last_gap, events, outcomes,
                   attempted, crash>>

DictSet(d, key, value) ==
    JDict([k \in DOMAIN d.v \cup {key} |-> IF k = key THEN value ELSE d.v[k]])

\* the endpoint loop left at the first endpoint that fails
OwmAfterEndpointBreaks(o, name, outcome) ==
    IF outcome.kind = "ok"
    THEN [ep |-> o.ep + 1, data |-> DictSet(o.data, name, outcome.body),
          overall_success |-> TRUE]
    ELSE [o EXCEPT !.ep = Len(OwmEndpoints) + 1]

\* one pass of the endpoint loop of _fetch_owm_data
OwmAfterEndpoint(o, name, outcome) ==
    IF outcome.kind = "ok"
    THEN [ep |-> o.ep + 1, data |-> DictSet(o.data, name, outcome.body),
          overall_success |-> TRUE]
    ELSE [o EXCEPT !.ep = @ + 1]

\* total_requests counted once the response has arrived, so a transport
\* error goes uncounted
OwmMetricsOnAnswer(metrics, outcome) ==
    [metrics EXCEPT !.total_requests = IF outcome.kind = "transport" THEN @ ELSE @ + 1,
                    !.owm_success = IF outcome.kind = "ok" THEN @ + 1 ELSE @]

\* _fetch_owm_data per endpoint: total_requests += 1 before the request,
\* owm_success += 1 after response.json()
OwmMetrics(metrics, outcome) ==
    [metrics EXCEPT !.total_requests = @ + 1,
                    !.owm_success = IF outcome.kind = "ok" THEN @ + 1 ELSE @]

OwmReturn(o, city) == IF o.overall_success THEN Payload(OWM, city, o.data) ELSE None

OwmEndpoint ==
    /\ pc = "owm_endpoint"
    /\ \E outcome \in Outcomes(OwmBodies(OwmEndpoints[owm.ep])) :
          LET o1 == OwmAfterEndpoint(owm, OwmEndpoints[owm.ep], outcome)
              m1 == OwmMetrics(summary_metrics, outcome)
          IN  /\ Request(OwmSleep)
              /\ net' = NetRequest(net, OWM, outcome)
              /\ owm_log' = Append(owm_log, [name |-> OwmEndpoints[owm.ep],
                                             kind |-> outcome.kind])
              /\ IF o1.ep <= Len(OwmEndpoints)
                 THEN /\ owm' = o1
                      /\ summary_metrics' = m1
                      /\ UNCHANGED <<pc, api_idx, data, events>>
                 ELSE /\ owm' = OwmLocals
                      /\ AfterFetch(OWM, OwmReturn(o1, City), m1)
    /\ UNCHANGED <<settings, raw_data, processed_data, city_idx, attempt, outcomes,
                   attempted, crash>>

\* the request itself left out of total_requests
WapiMetricsUncounted(metrics, outcome) ==
    [metrics EXCEPT !.wapi_success = IF outcome.kind \in {"ok", "bad_json"}
                                     THEN @ + 1 ELSE @]

\* _fetch_wapi_data: wapi_success is counted before response.json() is called
WapiMetrics(metrics, outcome) ==
    [metrics EXCEPT !.total_requests = @ + 1,
                    !.wapi_success = IF outcome.kind \in {"ok", "bad_json"}
                                     THEN @ + 1 ELSE @]

WapiReturn(outcome, city) ==
    IF outcome.kind = "ok" THEN Payload(WAPI, city, outcome.body) ELSE None

CallWapi ==
    /\ pc = "api_loop"
    /\ api_idx <= Len(API_PRIORITY)
    /\ API_PRIORITY[api_idx] = WAPI
    /\ \E outcome \in Outcomes(WapiBodies) :
          /\ Request(WapiSleep)
          /\ net' = NetRequest(NetCall(net, WAPI), WAPI, outcome)
          /\ AfterFetch(WAPI, WapiReturn(outcome, City), WapiMetrics(summary_metrics, outcome))
    /\ owm_log' = << >>
    /\ UNCHANGED <<settings, raw_data, processed_data, city_idx, attempt, owm,
                   outcomes, attempted, crash>>

\* the API loop ran out of sources
ApiLoopEnd ==
    /\ pc = "api_loop"
    /\ api_idx > Len(API_PRIORITY)
    /\ pc' = "after_api"
    /\ owm_log' = << >>
    /\ UNCHANGED <<settings, raw_data, processed_data, summary_metrics, city_idx,
                   attempt, api_idx, data, owm, slept, last_gap, events, outcomes,
                   attempted, crash, net>>

\* the second `if data: break` left out
BreaksRetryLoopNever(d) == FALSE

\* `if data: break` after the API loop
BreaksRetryLoop(d) == Truthy(d)

\* after the API loop: break on data, else back off and try again
AfterApi ==
    /\ pc = "after_api"
    /\ IF BreaksRetryLoop(data)
       THEN /\ pc' = "after_retry"
            /\ UNCHANGED <<attempt, slept, events>>
       ELSE /\ pc' = "retry_loop"
            /\ attempt' = attempt + 1
            /\ IF NeedsBackoff(attempt)
               THEN /\ slept' = slept + BackoffDelay(attempt)
                    /\ events' = Append(events, BackoffEvent(BackoffDelay(attempt)))
               ELSE UNCHANGED <<slept, events>>
    /\ owm_log' = << >>
    /\ UNCHANGED <<settings, raw_data, processed_data, summary_metrics, city_idx,
                   api_idx, data, owm, last_gap, outcomes, attempted, crash, net>>


\* the issue naming the last attempt index in place of MAX_RETRIES
HardFailureIssueLastAttempt(city) ==
    Issue("HardFailure", city, "", JInt(settings.MAX_RETRIES - 1))

\* failures += 1; issues.append("Hard failure for {city} after {MAX_RETRIES} attempts.")
HardFailureIssue(city) == Issue("HardFailure", city, "", JInt(MAX_RETRIES))

\* the failure counted but no issue appended
RecordHardFailureSilent(metrics, city) == [metrics EXCEPT !.failures = @ + 1]

RecordHardFailure(metrics, city) ==
    [metrics EXCEPT !.failures = @ + 1,
                    !.issues = Append(@, HardFailureIssue(city))]

GotPayload(evs) == \E i \in DOMAIN evs : evs[i].kind = "fetch" /\ evs[i].got

\* after the retry loop: assess and normalise the payload, or record the failure
FinishCity ==
    /\ pc = "after_retry"
    /\ outcomes' = Append(outcomes, [city |-> City, got |-> GotPayload(events)])
    /\ IF Truthy(data)
       THEN LET a == AssessAndLogQuality(data, summary_metrics) IN
            /\ raw_data' = Append(raw_data, a.record)
            /\ summary_metrics' = a.metrics
            /\ IF a.raised
               THEN /\ crash' = [at |-> "collect_data", escaped |-> FALSE]
                    /\ pc' = "except"
                    /\ UNCHANGED <<processed_data, city_idx>>
               ELSE /\ processed_data' = Append(processed_data, ProcessRawData(a.record))
                    /\ city_idx' = city_idx + 1
                    /\ pc' = "city_loop"
                    /\ UNCHANGED crash
       ELSE /\ summary_metrics' = RecordHardFailure(summary_metrics, City)
            /\ city_idx' = city_idx + 1
            /\ pc' = "city_loop"
            /\ UNCHANGED <<raw_data, processed_data, crash>>
    /\ UNCHANGED <<settings, attempt, api_idx, data, owm, slept, last_gap, events,
                   attempted,
                   net, owm_log>>

\* ----------------------------------------------------------- run_agent
\* collect_data returned: _save_data and _generate_and_save_metadata, which
\* catch their own write errors
SaveAndMetadata ==
    /\ pc = "city_loop"
    /\ city_idx > Len(CITIES)
    /\ attempted' = attempted \cup {"save", "metadata"}
    /\ pc' = "report"
    /\ UNCHANGED <<settings, raw_data, processed_data, summary_metrics, city_idx,
                   attempt, api_idx, data, owm, slept, last_gap, events, outcomes, crash,
                   net, owm_log>>

\* _generate_quality_report guards both of its divisions
ReportRaises(metrics) == FALSE

\* _generate_collection_summary divides by total_requests in the OpenWeatherMap
\* failure rate without a guard
SummaryRaises(metrics) == metrics.total_requests = 0

\* the try block's _generate_quality_report and _generate_collection_summary
Reports ==
    /\ pc = "report"
    /\ IF ReportRaises(summary_metrics)
       THEN /\ attempted' = attempted \cup {"report"}
            /\ crash' = [at |-> "report", escaped |-> FALSE]
            /\ pc' = "except"
       ELSE /\ attempted' = attempted \cup {"report", "summary"}
            /\ IF SummaryRaises(summary_metrics)
               THEN /\ crash' = [at |-> "summary", escaped |-> FALSE]
                    /\ pc' = "except"
               ELSE /\ pc' = "done"
                    /\ UNCHANGED crash
    /\ UNCHANGED <<settings, raw_data, processed_data, summary_metrics, city_idx,
                   attempt, api_idx, data, owm, slept, last_gap, events, outcomes,
                   net, owm_log>>

CriticalIssue(at) == Issue("Critical", "", "", JStr(at))

\* the except clause: the issue, then the two reports again, unprotected
Except ==
    /\ pc = "except"
    /\ summary_metrics' = [summary_metrics EXCEPT !.issues = Append(@, CriticalIssue(crash.at))]
    /\ IF ReportRaises(summary_metrics)
       THEN /\ attempted' = attempted \cup {"except_report"}
            /\ crash' = [crash EXCEPT !.escaped = TRUE]
       ELSE /\ attempted' = attempted \cup {"except_report", "except_summary"}
            /\ crash' = [crash EXCEPT !.escaped = SummaryRaises(summary_metrics)]
    /\ pc' = "done"
    /\ UNCHANGED <<settings, raw_data, processed_data, city_idx, attempt, api_idx,
                   data, owm, slept, last_gap, events, outcomes,
                   net, owm_log>>

Next ==
    \/ StartCity
    \/ RetryLoop
    \/ CallOwm
    \/ OwmEndpoint
    \/ CallWapi
    \/ ApiLoopEnd
    \/ AfterApi
    \/ FinishCity
    \/ SaveAndMetadata
    \/ Reports
    \/ Except

Spec == Init /\ [][Next]_vars


\* ------------------------------------------- the pure functions on their own
\* A second specification: a payload of either source schema, drawn from the
\* shapes a JSON body can take, is handed to _assess_and_log_quality and to
\* _process_raw_data.
Missing == [t |-> "missing", v |-> 0]

\* the dict of the fields of f that are not Missing
MkDict(f) == JDict([k \in {x \in DOMAIN f : f[x] # Missing} |-> f[k]])

UnitTemps ==
    {Missing, None, JStr("hot"), JNum(20 * Scale),
     JNum(TempMin * Scale - 1), JNum(TempMin * Scale),
     JNum(TempMax * Scale), JNum(TempMax * Scale + 1), JNum(55 * Scale)}
UnitHumidities == {Missing, JNum(60 * Scale)}
UnitSpeeds == {Missing, JNum(36 * Scale), JNum(10 * Scale), JStr("fast")}

ListOf(n, elem) == JList([i \in 1..n |-> elem])

UnitForecasts(key, field, min) ==
    {Missing, EmptyDict, EmptyList, MkDict([x \in {key} |-> None]),
     MkDict([x \in {key} |-> ListOf(min, JDict([x2 \in {field} |-> JStr("t0")]))]),
     MkDict([x \in {key} |-> ListOf(min - 1, EmptyDict)]),
     MkDict([x \in {key} |-> ListOf(1, JNum(5 * Scale))])}

UnitOwmMains ==
    {Missing, JStr("x")}
    \cup {MkDict([temp |-> tv, humidity |-> h]) : tv \in UnitTemps, h \in UnitHumidities}
UnitOwmWinds == {Missing, EmptyList} \cup {MkDict([speed |-> w]) : w \in UnitSpeeds}
UnitOwmCurrents ==
    {Missing, None} \cup {MkDict([main |-> m, wind |-> w]) : m \in UnitOwmMains, w \in UnitOwmWinds}
UnitWapiCurrents ==
    {Missing, JStr("x")}
    \cup {MkDict([temp_c |-> tv, humidity |-> h, wind_kph |-> w]) :
            tv \in UnitTemps, h \in UnitHumidities, w \in UnitSpeeds}

UnitOwmData ==
    {MkDict([current |-> c, forecast |-> f]) :
        c \in UnitOwmCurrents, f \in UnitForecasts("list", "dt_txt", OwmMinForecast)}
UnitWapiData ==
    {None, EmptyList}
    \cup {MkDict([current |-> c, forecast |-> f]) :
            c \in UnitWapiCurrents, f \in UnitForecasts("forecastday", "date", WapiMinForecast)}

UnitScores == {Absent, JInt(0), JInt(FullScore)}

UnitRecords ==
    {[Payload(OWM, CityNames[1], d) EXCEPT !.quality_score = q] :
        d \in UnitOwmData, q \in UnitScores}
    \cup {[Payload(WAPI, CityNames[1], d) EXCEPT !.quality_score = q] :
        d \in UnitWapiData, q \in UnitScores}

UnitSettings ==
    [CITIES |-> SubSeq(CityNames, 1, 1), MAX_RETRIES |-> 1,
     RESPECTFUL_DELAY_SECONDS |-> 1, API_PRIORITY |-> <<OWM, WAPI>>]

InitUnit ==
    /\ settings = UnitSettings
    /\ raw_data = << >>
    /\ processed_data = << >>
    /\ summary_metrics = InitialMetrics
    /\ pc = "unit"
    /\ city_idx = 1
    /\ attempt = 0
    /\ api_idx = 1
    /\ data \in UnitRecords
    /\ owm = OwmLocals
    /\ slept = 0
    /\ last_gap = -1
    /\ events = << >>
    /\ outcomes = << >>
    /\ attempted = {}
    /\ crash = NoCrash
    /\ net = NoTraffic
    /\ owm_log = << >>

\* self._assess_and_log_quality(data)
UnitAssess ==
    /\ pc = "unit"
    /\ LET a == AssessAndLogQuality(data, summary_metrics) IN
       /\ data' = a.record
       /\ summary_metrics' = a.metrics
       /\ crash' = IF a.raised THEN [at |-> "assess", escaped |-> TRUE] ELSE crash
       /\ pc' = IF a.raised THEN "unit_done" ELSE "unit_assessed"
    /\ UNCHANGED <<settings, raw_data, processed_data, city_idx, attempt, api_idx, owm,
                   slept, last_gap, events, outcomes, attempted,
                   net, owm_log>>

\* self._process_raw_data(data), with or without an assessment before it
UnitProcess ==
    /\ pc \in {"unit", "unit_assessed"}
    /\ processed_data' = Append(processed_data, ProcessRawData(data))
    /\ pc' = "unit_done"
    /\ UNCHANGED <<settings, raw_data, summary_metrics, city_idx, attempt, api_idx,
                   data, owm, slept, last_gap, events, outcomes, attempted, crash,
                   net, owm_log>>

NextUnit == UnitAssess \/ UnitProcess

SpecUnit == InitUnit /\ [][NextUnit]_vars


\* ================================================================ claims
issues == summary_metrics.issues

InLocation == pc \in {"retry_loop", "api_loop", "owm_endpoint", "after_api", "after_retry"}

HasRecord(c) == \E i \in DOMAIN processed_data : processed_data[i].city = c
HasHardFailure(c) == \E i \in DOMAIN issues : issues[i].kind = "HardFailure" /\ issues[i].city = c

\* C1: every location collect_data has finished has either a canonical record
\* in processed_data or a hard-failure issue, never both and never neither; in
\* particular all configured locations once collect_data has returned.
C1_ExactlyOneOutcome ==
    \A i \in DOMAIN CITIES :
        i < city_idx => (HasRecord(CITIES[i]) # HasHardFailure(CITIES[i]))

C1_Witness ==
    /\ pc = "done"
    /\ crash.at = "none"
    /\ Len(CITIES) = 2
    /\ HasRecord(CITIES[1]) /\ HasHardFailure(CITIES[2])

\* C2: at most one record per location, and failures + successful_requests
\* counts the locations that completed the retry loop (plus the current one
\* once its payload was counted).
C2_OneContribution ==
    /\ summary_metrics.failures + summary_metrics.successful_requests
         = Len(outcomes) + (IF InLocation /\ data # None THEN 1 ELSE 0)
    /\ Len(processed_data) <= summary_metrics.successful_requests
    /\ \A i, j \in DOMAIN processed_data :
          processed_data[i].city = processed_data[j].city => i = j

C2_Witness ==
    /\ pc = "done"
    /\ Len(outcomes) = 2
    /\ summary_metrics.failures = 1
    /\ summary_metrics.successful_requests = 1

\* C3 (as claimed): every outbound request but the first of the run is sent at
\* least RESPECTFUL_DELAY_SECONDS after the request before it.
C3_RespectfulGap == last_gap = -1 \/ last_gap >= RESPECTFUL_DELAY_SECONDS


OptionalFieldsUnset(p) ==
    /\ p.current_temp_c = None
    /\ p.current_humidity_p = None
    /\ p.current_wind_speed_m_s = None
    /\ p.forecast_summary = None

NoRaiseLeaks(p) ==
    /\ DOMAIN p = {"city", "collection_timestamp", "source_api", "quality_score",
                   "current_temp_c", "current_humidity_p", "current_wind_speed_m_s",
                   "forecast_summary"}
    /\ \A f \in {"quality_score", "current_temp_c", "current_humidity_p",
                 "current_wind_speed_m_s", "forecast_summary"} : ~IsRaise(p[f])

\* C4 (as claimed): the record of a payload whose data is {} has its optional
\* fields unset and quality_score forced to 0.
C4_EmptyForcedToZero ==
    \A i \in DOMAIN processed_data :
        data.data = EmptyDict =>
            /\ OptionalFieldsUnset(processed_data[i])
            /\ processed_data[i].quality_score = JInt(0)

\* C4 (amended): _process_raw_data always returns a full record, and for a
\* payload whose data is {} the optional fields are unset and quality_score is
\* the score attached to the payload, 'N/A' when none was attached.
C4_EmptyKeepsScore ==
    \A i \in DOMAIN processed_data :
        /\ NoRaiseLeaks(processed_data[i])
        /\ data.data = EmptyDict =>
              /\ OptionalFieldsUnset(processed_data[i])
              /\ processed_data[i].quality_score =
                    (IF data.quality_score = Absent THEN JStr("N/A")
                     ELSE data.quality_score)

C4_Witness ==
    /\ pc = "unit_done"
    /\ data.data = EmptyDict
    /\ data.quality_score = JInt(FullScore - ForecastPenalty - 3 * FieldPenalty)
    /\ Len(processed_data) = 1
    /\ processed_data[1].quality_score = data.quality_score

\* the source-client calls made for the current location, one in progress
\* included
Calls(api) ==
    Cardinality({i \in DOMAIN events : events[i].kind = "fetch" /\ events[i].api = api})
    + (IF api = OWM /\ pc = "owm_endpoint" THEN 1 ELSE 0)

Occurrences(api) == Cardinality({i \in DOMAIN API_PRIORITY : API_PRIORITY[i] = api})

PassesStarted ==
    {events[i].attempt : i \in {j \in DOMAIN events : events[j].kind = "fetch"}}
    \cup (IF pc \in {"api_loop", "owm_endpoint", "after_api"} THEN {attempt} ELSE {})

\* C5: at most MAX_RETRIES passes over API_PRIORITY per location, hence at most
\* MAX_RETRIES calls of a source client per occurrence of the source.
C5_BoundedAttempts ==
    /\ Cardinality(PassesStarted) <= MAX_RETRIES
    /\ \A api \in {OWM, WAPI} : Calls(api) <= MAX_RETRIES * Occurrences(api)

C5_Witness ==
    /\ pc = "after_retry"
    /\ MAX_RETRIES = 3
    /\ API_PRIORITY = <<OWM, WAPI>>
    /\ Calls(OWM) = 3 /\ Calls(WAPI) = 3
    /\ Cardinality(PassesStarted) = 3

Backoffs == SelectSeq(events, LAMBDA e : e.kind = "backoff")

\* C6: the k-th backoff sleep of a location, the one before attempt k, lasts
\* RESPECTFUL_DELAY_SECONDS * 2^(k-1), and attempt a starts after a backoffs.
C6_BackoffDelay ==
    /\ \A k \in DOMAIN Backoffs :
          Backoffs[k].delay = RESPECTFUL_DELAY_SECONDS * Pow2(k - 1)
    /\ pc \in {"api_loop", "owm_endpoint"} => Len(Backoffs) = attempt

C6_Witness ==
    /\ pc = "owm_endpoint"
    /\ attempt = 2
    /\ Len(Backoffs) = 2
    /\ Backoffs[2].delay = 2 * RESPECTFUL_DELAY_SECONDS

\* C7 (as claimed): run_agent never ends by raising to its caller.
C7_NeverPropagates == pc = "done" => ~crash.escaped

\* C8 (as claimed): when collect_data is interrupted, the quality report, the
\* collection summary and the metadata are each attempted before run_agent ends.
C8_OutputsAttempted ==
    (pc = "done" /\ crash.at = "collect_data") =>
        /\ "except_report" \in attempted
        /\ "except_summary" \in attempted
        /\ "metadata" \in attempted

IssuesOf(c) == {i \in DOMAIN issues : issues[i].city = c}

\* C9: a location none of whose fetches returned a payload has exactly one
\* issue, the hard failure naming it and MAX_RETRIES attempts, one count in
\* failures, and no raw or processed record.
C9_Exhaustion ==
    /\ \A i \in DOMAIN outcomes :
          ~outcomes[i].got =>
             /\ Cardinality(IssuesOf(outcomes[i].city)) = 1
             /\ \A j \in IssuesOf(outcomes[i].city) :
                   issues[j] = Issue("HardFailure", outcomes[i].city, "", JInt(MAX_RETRIES))
             /\ \A j \in DOMAIN raw_data : raw_data[j].city # outcomes[i].city
             /\ \A j \in DOMAIN processed_data : processed_data[j].city # outcomes[i].city
    /\ summary_metrics.failures = Cardinality({i \in DOMAIN outcomes : ~outcomes[i].got})

C9_Witness ==
    /\ pc = "done"
    /\ MAX_RETRIES = 3
    /\ Len(outcomes) = 2
    /\ ~outcomes[1].got /\ outcomes[2].got
    /\ Len(raw_data) = 1

FetchesOf(a) == SelectSeq(events, LAMBDA e : e.kind = "fetch" /\ e.attempt = a)

\* C10: in each attempt the sources are called in API_PRIORITY order; a payload
\* is the last event of its location (no call, retry or backoff follows it);
\* and the record carries the source that returned it.
C10_PriorityOrder ==
    /\ \A a \in 0..MAX_RETRIES : \A j \in DOMAIN FetchesOf(a) :
          /\ j <= Len(API_PRIORITY)
          /\ FetchesOf(a)[j].api = API_PRIORITY[j]
    /\ \A i \in DOMAIN events : (events[i].kind = "fetch" /\ events[i].got) => i = Len(events)
    /\ GotPayload(events) => pc \notin {"retry_loop", "api_loop", "owm_endpoint"}
    /\ (pc = "city_loop" /\ GotPayload(events)) =>
          /\ processed_data # << >>
          /\ processed_data[Len(processed_data)].source_api = events[Len(events)].api
          /\ processed_data[Len(processed_data)].city = CITIES[city_idx - 1]

C10_Witness ==
    /\ pc = "city_loop"
    /\ API_PRIORITY = <<OWM, WAPI>>
    /\ Len(FetchesOf(0)) = 2
    /\ Len(FetchesOf(1)) = 2
    /\ GotPayload(events)
    /\ processed_data[Len(processed_data)].source_api = WAPI


\* the _fetch_owm_data call whose endpoints owm_log holds has returned, and
\* data still holds what it returned
OwmCallReturned == owm_log # << >> /\ pc # "owm_endpoint"

LogNames(log) == [i \in DOMAIN log |-> log[i].name]
GoodEndpoints(log) == {log[i].name : i \in {j \in DOMAIN log : log[j].kind = "ok"}}

\* C11: a call of _fetch_owm_data requests both endpoints, current then
\* forecast, whatever the first one answered; it returns None exactly when
\* neither endpoint answered 200 with a body that parses, and otherwise a
\* payload of the source and the city whose data sections are exactly the
\* endpoints that did.
C11_OwmBothEndpoints ==
    /\ pc = "owm_endpoint" =>
          /\ Len(owm_log) = owm.ep - 1
          /\ LogNames(owm_log) = SubSeq(OwmEndpoints, 1, Len(owm_log))
    /\ OwmCallReturned =>
          /\ LogNames(owm_log) = <<"current", "forecast">>
          /\ (data = None) <=> (GoodEndpoints(owm_log) = {})
          /\ data # None =>
                /\ data.api = OWM
                /\ data.city = City
                /\ DOMAIN data.data.v = GoodEndpoints(owm_log)

\* the current endpoint failed in transport, the forecast endpoint was still
\* asked and answered, and the payload holds the forecast section alone
C11_Witness ==
    /\ OwmCallReturned
    /\ owm_log[1].kind = "transport"
    /\ owm_log[2].kind = "ok"
    /\ data # None
    /\ DOMAIN data.data.v = {"forecast"}

\* _assess_and_log_quality has returned for the payload in data
Assessed == pc = "unit_assessed"

\* C12: the quality_score that _assess_and_log_quality attaches to a payload
\* is an integer from 0 to 100, for payloads of either source and whatever
\* sections they lack.
C12_ScoreRange ==
    Assessed =>
        /\ data.quality_score.t = "int"
        /\ data.quality_score.v \in 0..100

\* a payload with no section at all has been assessed and scored
C12_Witness ==
    /\ Assessed
    /\ data.data.t = "dict"
    /\ DOMAIN data.data.v = {}
    /\ data.quality_score.t = "int"
    /\ data.quality_score.v < FullScore

\* C13: a per-source success counter is incremented only for an endpoint call
\* that answered 200 with a body that parsed: each counter equals the number
\* of such answers of its source, so a 200 whose body cannot be decoded
\* leaves both counters alone.
C13_SuccessCounters ==
    /\ summary_metrics.owm_success = net.owm_ok
    /\ summary_metrics.wapi_success = net.wapi_ok

\* C14: total_requests is incremented once per endpoint request whatever the
\* answer, so it equals the number of requests sent; between client calls that
\* is twice the number of _fetch_owm_data calls plus the number of
\* _fetch_wapi_data calls, and inside a _fetch_owm_data call the call under
\* way counts for the endpoints it has requested so far.
C14_RequestCount ==
    /\ summary_metrics.total_requests = net.requests
    /\ pc # "owm_endpoint" =>
          summary_metrics.total_requests = 2 * net.owm_calls + net.wapi_calls
    /\ pc = "owm_endpoint" =>
          summary_metrics.total_requests
              = 2 * (net.owm_calls - 1) + net.wapi_calls + Len(owm_log)

\* both clients have been called, some request failed, and no call is under way
C14_Witness ==
    /\ pc # "owm_endpoint"
    /\ net.owm_calls >= 1
    /\ net.wapi_calls >= 1
    /\ net.owm_ok + net.wapi_ok < net.requests
    /\ summary_metrics.total_requests >= 3

\* the top of the location loop: the previous location, if any, is finished
LocationBoundary == pc = "city_loop"

\* raw_data and processed_data hold one entry each per success, the i-th of
\* each for the same location and source
PairedEntries ==
    /\ Len(raw_data) = summary_metrics.successful_requests
    /\ Len(processed_data) = summary_metrics.successful_requests
    /\ \A i \in DOMAIN processed_data :
          /\ processed_data[i].city = raw_data[i].city
          /\ processed_data[i].source_api = raw_data[i].api
          /\ raw_data[i].quality_score.t = "int"

\* C15 as stated: at every location boundary raw_data and processed_data
\* hold one entry per success, pairwise for the same location and source, and
\* each processed entry carries the score the assessor computed.
C15_AssessorScoreCarried ==
    LocationBoundary =>
        /\ PairedEntries
        /\ \A i \in DOMAIN processed_data :
              processed_data[i].quality_score = raw_data[i].quality_score

\* C15, amended: as above, but the processed entry carries either the score
\* the assessor computed or the 0 that _process_raw_data forces when the
\* mapping raised; it never carries the 'N/A' placeholder.
C15_PairedEntries ==
    LocationBoundary =>
        /\ PairedEntries
        /\ \A i \in DOMAIN processed_data :
              /\ processed_data[i].quality_score
                     \in {raw_data[i].quality_score, JInt(0)}
              /\ processed_data[i].quality_score # JStr("N/A")

\* two locations succeeded: one entry carries the assessor's score, the other
\* was zeroed by the normalizer although the assessor scored it above 0
C15_Witness ==
    /\ LocationBoundary
    /\ Len(processed_data) = 2
    /\ \E i, j \in DOMAIN processed_data :
          /\ processed_data[i].quality_score = raw_data[i].quality_score
          /\ raw_data[i].quality_score.v > 0
          /\ processed_data[j].quality_score = JInt(0)
          /\ raw_data[j].quality_score.v > 0

\* where each source keeps the current temperature
TempPath(api) ==
    IF api = OWM THEN <<"current", "main", "temp">> ELSE <<"current", "temp_c">>

\* the value found by following path through nested objects, Missing when
\* some step of the path is not there
RECURSIVE ValueAt(_, _)
ValueAt(x, path) ==
    IF path = << >> THEN x
    ELSE IF x.t = "dict" /\ Head(path) \in DOMAIN x.v
         THEN ValueAt(x.v[Head(path)], Tail(path))
         ELSE Missing

\* t is a number below -70 or above 50 degrees
OutOfRange(t) == t.t = "num" /\ (t.v < -70 * Scale \/ t.v > 50 * Scale)

\* the score before the validity check
ScoreBeforeValidity(api, d) ==
    FullScore
    - (IF ForecastCheck(api, d) = "deduct" THEN ForecastPenalty ELSE 0)
    - FieldPenalty * (Len(RequiredFields(api)) - ResolvedCount(api, d))

\* C16: when the current temperature of the assessed payload is a number
\* below -70 or above 50, the assessor deducts exactly 10 and appends exactly
\* one issue, which names the location, the source and the temperature; when
\* the temperature is absent, not a number or within [-70, 50] it deducts
\* nothing for validity and appends no issue.
C16_SuspectTemp ==
    Assessed =>
        LET t == ValueAt(data.data, TempPath(data.api))
            base == ScoreBeforeValidity(data.api, data.data)
        IN  IF OutOfRange(t)
            THEN /\ data.quality_score = JInt(base - 10)
                 /\ Len(issues) = 1
                 /\ issues[1].kind = "SuspectTemp"
                 /\ issues[1].city = data.city
                 /\ issues[1].api = data.api
                 /\ issues[1].arg = t
            ELSE /\ data.quality_score = JInt(base)
                 /\ issues = << >>

\* a WeatherAPI payload just above the upper limit has been assessed and flagged
C16_Witness ==
    /\ Assessed
    /\ data.api = WAPI
    /\ ValueAt(data.data, TempPath(WAPI)) = JNum(50 * Scale + 1)
    /\ Len(issues) = 1

\* the locations that have reached a terminal state, in the order they did
FinishedCities == [i \in DOMAIN outcomes |-> outcomes[i].city]

\* C17: locations reach their terminal state one by one in the configured
\* order, whatever the fetches return, and when the run has ended every
\* configured location, those after an exhausted one included, has reached
\* exactly one terminal state.
C17_EveryLocationFinishes ==
    /\ Len(outcomes) <= Len(CITIES)
    /\ FinishedCities = SubSeq(CITIES, 1, Len(outcomes))
    /\ pc = "done" => FinishedCities = CITIES

\* the cities of the locations that got a payload, in order
RECURSIVE CitiesWithPayload(_)
CitiesWithPayload(outs) ==
    IF outs = << >> THEN << >>
    ELSE (IF Head(outs).got THEN <<Head(outs).city>> ELSE << >>)
         \o CitiesWithPayload(Tail(outs))

\* C18: the fetch result is empty at the start of each location, and a
\* payload held while a location is processed was returned by a client call
\* made for that location in its own retry loop; so the records of raw_data
\* and of processed_data carry, in order, the cities of the locations whose
\* own fetches returned a payload, and nothing of an earlier location is
\* reused for a later one.
C18_OwnPayload ==
    /\ InLocation /\ data # None =>
          /\ data.city = City
          /\ \E i \in DOMAIN events :
                events[i].kind = "fetch" /\ events[i].got /\ events[i].api = data.api
    /\ [i \in DOMAIN raw_data |-> raw_data[i].city] = CitiesWithPayload(outcomes)
    /\ [i \in DOMAIN processed_data |-> processed_data[i].city]
          = SubSeq(CitiesWithPayload(outcomes), 1, Len(processed_data))
    /\ Len(raw_data) - Len(processed_data) \in {0, 1}

\* the first location succeeded, the second exhausted its retries, and the
\* run ended with the first location's record only
C18_Witness ==
    /\ pc = "done"
    /\ Len(outcomes) = 2
    /\ outcomes[1].got
    /\ ~outcomes[2].got
    /\ summary_metrics.total_requests > 2
    /\ Len(raw_data) = 1
    /\ raw_data[1].city = CITIES[1]
    /\ Len(processed_data) = 1

\* _process_raw_data has returned the record processed_data[1] for the
\* payload in data
Processed == pc = "unit_done" /\ Len(processed_data) = 1

\* r hundredths is w hundredths times 0.277778, to the nearest hundredth
NearestHundredth(r, w) ==
    LET diff == r * MicroUnit - w * KphFactorMicro IN
    2 * diff <= MicroUnit /\ -2 * diff <= MicroUnit

\* C19: for a WeatherAPI payload whose current.wind_kph is a number the
\* canonical wind speed is that number times 0.277778 rounded to two
\* decimals, 10.0 for 36.0; for an OpenWeatherMap payload whose current
\* section maps, the canonical wind speed is the value of wind.speed itself.
C19_WindSpeed ==
    Processed =>
        LET p == processed_data[1]
            kph == ValueAt(data.data, <<"current", "wind_kph">>)
            speed == ValueAt(data.data, <<"current", "wind", "speed">>)
            main == ValueAt(data.data, <<"current", "main">>)
        IN  /\ data.api = WAPI /\ kph.t = "num" =>
                  /\ p.current_wind_speed_m_s.t = "num"
                  /\ NearestHundredth(p.current_wind_speed_m_s.v, kph.v)
                  /\ kph.v = 36 * Scale => p.current_wind_speed_m_s.v = 10 * Scale
            /\ data.api = OWM /\ speed # Missing /\ (main = Missing \/ main.t = "dict") =>
                  p.current_wind_speed_m_s = speed

\* a WeatherAPI payload with wind_kph = 10.0 was normalized to 2.78 m/s
C19_Witness ==
    /\ Processed
    /\ data.api = WAPI
    /\ ValueAt(data.data, <<"current", "wind_kph">>) = JNum(10 * Scale)
    /\ processed_data[1].current_wind_speed_m_s = JNum(278)

\* the forecast section is absent, or holds fewer entries than the source's
\* threshold
ForecastAbsentOrShort(api, d) ==
    LET lst == ValueAt(d, <<"forecast", IF api = OWM THEN "list" ELSE "forecastday">>)
        entries == IF lst.t = "list" THEN Len(lst.v) ELSE 0
    IN  \/ ValueAt(d, <<"forecast">>) = Missing
        \/ entries < (IF api = OWM THEN 30 ELSE 5)

\* how many of the three required fields of the source are not in the payload
UnresolvedFields(api, d) ==
    Cardinality({i \in 1..3 : ValueAt(d, RequiredFields(api)[i]) = Missing})

\* C20: the score of an assessed payload is 100, less 20 when the forecast
\* section is absent or shorter than the source's threshold (30, 5), less 5
\* for each of the three required fields that does not resolve, less 10 when
\* the temperature is a number outside [-70, 50]; data_points_collected grows
\* by the number of required fields that do resolve.
C20_ScoreFormula ==
    Assessed =>
        LET api == data.api
            d == data.data
            unresolved == UnresolvedFields(api, d)
            score == 100
                     - (IF ForecastAbsentOrShort(api, d) THEN 20 ELSE 0)
                     - 5 * unresolved
                     - (IF OutOfRange(ValueAt(d, TempPath(api))) THEN 10 ELSE 0)
        IN  /\ data.quality_score = JInt(score)
            /\ summary_metrics.data_points_collected = 3 - unresolved
            /\ summary_metrics.total_quality_score = score

\* an OpenWeatherMap payload with a forecast one entry short, one required
\* field unresolved and a suspect temperature: 100 - 20 - 5 - 10
C20_Witness ==
    /\ Assessed
    /\ data.api = OWM
    /\ ForecastAbsentOrShort(OWM, data.data)
    /\ ValueAt(data.data, <<"forecast">>) # Missing
    /\ UnresolvedFields(OWM, data.data) = 1
    /\ OutOfRange(ValueAt(data.data, TempPath(OWM)))
    /\ data.quality_score = JInt(65)
    /\ summary_metrics.data_points_collected = 2

\* x is there and is not an object
NotObject(x) == x # Missing /\ x.t # "dict"

\* the value a .get returns: None for a key that is not there
OrNone(x) == IF x = Missing THEN None ELSE x

\* the forecast entries cannot give a summary: the section is not an object,
\* or its list is non-empty and does not start with an object
ForecastUnmappable(api, d) ==
    LET lst == ValueAt(d, <<"forecast", IF api = OWM THEN "list" ELSE "forecastday">>) IN
    \/ NotObject(ValueAt(d, <<"forecast">>))
    \/ /\ lst # Missing
       /\ PyTruthy(lst)
       /\ ~(lst.t = "list" /\ lst.v[1].t = "dict")

\* where the mapping of payload data d of source api fails: "current" before
\* any field is set, "wind" after temperature and humidity, "forecast" after
\* the wind speed, "none" when it does not fail
FailStage(api, d) ==
    LET current == ValueAt(d, <<"current">>)
        kph == ValueAt(d, <<"current", "wind_kph">>)
    IN  CASE d.t # "dict" \/ NotObject(current) -> "current"
          [] api = OWM /\ NotObject(ValueAt(d, <<"current", "main">>)) -> "current"
          [] api = OWM /\ NotObject(ValueAt(d, <<"current", "wind">>)) -> "wind"
          [] api = WAPI /\ kph # Missing /\ kph # None /\ kph.t # "num" -> "wind"
          [] ForecastUnmappable(api, d) -> "forecast"
          [] OTHER -> "none"

\* the canonical record p holds what the mapping of d had set when it failed
\* at stage, and nothing more
KeepsFieldsSetBefore(p, api, d, stage) ==
    LET temp == ValueAt(d, IF api = OWM THEN <<"current", "main", "temp">>
                           ELSE <<"current", "temp_c">>)
        hum == ValueAt(d, IF api = OWM THEN <<"current", "main", "humidity">>
                          ELSE <<"current", "humidity">>)
        speed == ValueAt(d, IF api = OWM THEN <<"current", "wind", "speed">>
                            ELSE <<"current", "wind_kph">>)
    IN  /\ p.forecast_summary = None
        /\ IF stage = "current"
           THEN p.current_temp_c = None /\ p.current_humidity_p = None
           ELSE p.current_temp_c = OrNone(temp) /\ p.current_humidity_p = OrNone(hum)
        /\ IF stage = "forecast"
           THEN IF api = OWM THEN p.current_wind_speed_m_s = OrNone(speed)
                ELSE (p.current_wind_speed_m_s = None) <=> (OrNone(speed) = None)
           ELSE p.current_wind_speed_m_s = None

\* C21: when the mapping in _process_raw_data fails part-way, the step that
\* runs it returns a record whose quality_score is 0 and which keeps the
\* fields set before the failure, and leaves the raw payload with its own
\* quality_score and summary_metrics (total_quality_score, failures and
\* successful_requests among them) and raw_data as they were.
C21_MappingFailureFrame ==
    [][(/\ pc \in {"unit", "unit_assessed"}
        /\ Len(processed_data') = 1
        /\ FailStage(data.api, data.data) # "none")
       => /\ processed_data'[1].quality_score = JInt(0)
          /\ processed_data'[1].city = data.city
          /\ processed_data'[1].source_api = data.api
          /\ KeepsFieldsSetBefore(processed_data'[1], data.api, data.data,
                                  FailStage(data.api, data.data))
          /\ data' = data
          /\ summary_metrics' = summary_metrics
          /\ raw_data' = raw_data]_vars

\* an assessed WeatherAPI payload whose wind_kph is text: the record keeps the
\* temperature, has no wind speed and score 0, the payload keeps its score
C21_Witness ==
    /\ Processed
    /\ data.api = WAPI
    /\ FailStage(WAPI, data.data) = "wind"
    /\ processed_data[1].quality_score = JInt(0)
    /\ processed_data[1].current_temp_c = JNum(20 * Scale)
    /\ processed_data[1].current_wind_speed_m_s = None
    /\ data.quality_score.t = "int"
    /\ data.quality_score.v > 0
    /\ summary_metrics.total_quality_score = data.quality_score.v

\* the retry loop of the current location has ended without a payload
Exhausted == pc = "after_retry" /\ data = None

\* the location just finished was recorded as a hard failure, and the next
\* one has not started
JustFailed == pc = "city_loop" /\ outcomes # << >> /\ ~outcomes[Len(outcomes)].got

BackoffsOwed == IF MAX_RETRIES <= 1 THEN 0 ELSE MAX_RETRIES - 1

\* C22: no backoff sleep follows the last permitted attempt. A location that
\* exhausts its MAX_RETRIES attempts has slept MAX_RETRIES - 1 backoffs, none
\* when MAX_RETRIES <= 1, and what precedes the recording of its hard failure
\* is the last failed fetch, not a sleep.
C22_NoBackoffAfterLast ==
    /\ \A i \in DOMAIN events :
          events[i].kind = "backoff" => events[i].attempt < MAX_RETRIES - 1
    /\ Exhausted \/ JustFailed =>
          /\ Len(Backoffs) = BackoffsOwed
          /\ events # << >> => events[Len(events)].kind = "fetch"
    /\ JustFailed => HasHardFailure(outcomes[Len(outcomes)].city)

\* a location used up three attempts with two backoffs and was recorded as a
\* hard failure right after its last fetch
C22_Witness ==
    /\ JustFailed
    /\ MAX_RETRIES = 3
    /\ Len(Backoffs) = 2
    /\ events[Len(events)].kind = "fetch"
    /\ events[Len(events)].attempt = 2
    /\ HasHardFailure(outcomes[Len(outcomes)].city)

Counters ==
    {"total_requests", "successful_requests", "failures", "data_points_collected",
     "owm_success", "wapi_success", "total_quality_score"}

\* successful_requests <= owm_success + wapi_success <= total_requests in
\* metrics m, so the success rate is at most 100% and the OpenWeatherMap
\* failure rate is not negative
CountersOrdered(m) ==
    /\ m.successful_requests <= m.owm_success + m.wapi_success
    /\ m.owm_success + m.wapi_success <= m.total_requests
    /\ m.successful_requests * 100 <= 100 * m.total_requests
    /\ (m.total_requests - m.owm_success) * 100 >= 0

\* C23: in every state of a run successful_requests <= owm_success +
\* wapi_success <= total_requests, so the reported success rate never exceeds
\* 100% and the OpenWeatherMap failure rate is never negative; and no step
\* of the run decreases a counter.
C23_CountersOrdered ==
    [][/\ CountersOrdered(summary_metrics)
       /\ CountersOrdered(summary_metrics')
       /\ \A c \in Counters : summary_metrics'[c] >= summary_metrics[c]]_vars

\* both inequalities are strict: an OpenWeatherMap success counted two good
\* endpoints, a WeatherAPI success one, and some request failed
C23_Witness ==
    /\ pc = "done"
    /\ summary_metrics.successful_requests = 2
    /\ summary_metrics.owm_success = 2
    /\ summary_metrics.wapi_success >= 1
    /\ summary_metrics.owm_success + summary_metrics.wapi_success
          < summary_metrics.total_requests

====
